---------------------------- MODULE Spec2Model ----------------------------
(***************************************************************************)
(* AdapterRemoval: the FASTQ read record (src/src/fastq.cc) and the        *)
(* quality encodings declared in fastq_enc.h (src/unnamed/part_000).       *)
(*                                                                         *)
(* A std::string is a sequence of byte values (ASCII codes); C++ indices   *)
(* are 0-based and are kept 0-based here, so s[i + 1] is the C++ s[i].     *)
(***************************************************************************)
EXTENDS Integers, Sequences, FiniteSets, TLC

VARIABLES
    rec,     \* the fastq object: [m_header, m_sequence, m_qualities]
    origin,  \* how the object's contents came about:
             \*   "none" (no object yet), "default" (fastq()), "fields"
             \*   (4-argument constructor), "parse" (read() returned true),
             \*   "failed_parse" (read() threw after touching the object)
    lines,   \* the string_vec the iterators of read() range over
    it,      \* read()'s iterator, as a 0-based index into lines
    mate2,   \* the second record handed to validate_paired_reads
    last     \* the last call: [op, args, pre, ret, err]

vars == <<rec, origin, lines, it, mate2, last>>

-----------------------------------------------------------------------------
(* Bytes                                                                   *)

\* ASCII codes of the characters the sources name as literals.
Ord ==
    ("A" :> 65) @@ ("C" :> 67) @@ ("G" :> 71) @@ ("T" :> 84) @@ ("N" :> 78) @@
    ("a" :> 97) @@ ("c" :> 99) @@ ("g" :> 103) @@ ("t" :> 116) @@ ("n" :> 110) @@
    ("." :> 46) @@ ("-" :> 45) @@ ("@" :> 64) @@ ("+" :> 43) @@ ("/" :> 47) @@
    ("1" :> 49) @@ ("2" :> 50) @@ (" " :> 32) @@ ("\n" :> 10) @@ ("!" :> 33) @@
    ("~" :> 126) @@ (";" :> 59) @@ ("h" :> 104) @@ ("#" :> 35) @@ ("I" :> 73) @@
    ("J" :> 74) @@ ("K" :> 75) @@ ("X" :> 88) @@ ("r" :> 114) @@ ("M" :> 77) @@
    ("B" :> 66) @@ ("_" :> 95)

\* The std::string spelled by a tuple of one-character strings.
Str(t) == [i \in 1..Len(t) |-> Ord[t[i]]]

\* Every string over alphabet A of length at most n.
Strings(A, n) == UNION {[1..k -> A] : k \in 0..n}

Min(a, b) == IF a <= b THEN a ELSE b
Max(a, b) == IF a >= b THEN a ELSE b

\* std::string::substr(pos, len) for pos <= size(): the characters at the
\* 0-based indices [pos, min(pos + len, size())).  (pos > size() throws
\* std::out_of_range; the callers below test that first.)
substr(s, pos, len) == SubSeq(s, pos + 1, Min(pos + len, Len(s)))

\* std::reverse over a whole string.
reverse(s) == [i \in 1..Len(s) |-> s[Len(s) + 1 - i]]

-----------------------------------------------------------------------------
(* size_t: 64 bits, as four 16-bit limbs, least significant first.         *)

SizeT(n) == <<n % 65536, (n \div 65536) % 65536, 0, 0>>

RECURSIVE SizeSubLimbs(_, _, _, _)
SizeSubLimbs(a, b, i, borrow) ==
    IF i > 4 THEN <<>>
    ELSE LET d == a[i] - b[i] - borrow
         IN  <<d % 65536>> \o SizeSubLimbs(a, b, i + 1, IF d < 0 THEN 1 ELSE 0)

\* a - b in size_t arithmetic (modulo 2^64).
SizeSub(a, b) == SizeSubLimbs(a, b, 1, 0)

RECURSIVE SizeAddLimbs(_, _, _, _)
SizeAddLimbs(a, b, i, carry) ==
    IF i > 4 THEN <<>>
    ELSE LET d == a[i] + b[i] + carry
         IN  <<d % 65536>> \o SizeAddLimbs(a, b, i + 1, d \div 65536)

\* a + b in size_t arithmetic (modulo 2^64).
SizeAdd(a, b) == SizeAddLimbs(a, b, 1, 0)

-----------------------------------------------------------------------------
(* fastq_enc.h: constants and the encodings                                *)

PHRED_OFFSET_33 == 33
PHRED_OFFSET_64 == 64
MIN_PHRED_SCORE == 0
MAX_PHRED_SCORE_DEFAULT == 41
MAX_PHRED_SCORE == 93
MIN_SOLEXA_SCORE == -5
MAX_SOLEXA_SCORE == 40

\* fastq_encoding(offset, max_score) and fastq_encoding_solexa(max_score).
fastq_encoding(offset, max_score) ==
    [m_offset |-> offset, m_max_score |-> max_score, solexa |-> FALSE]
fastq_encoding_solexa(max_score) ==
    [m_offset |-> PHRED_OFFSET_64, m_max_score |-> max_score, solexa |-> TRUE]

FASTQ_ENCODING_33 == fastq_encoding(PHRED_OFFSET_33, MAX_PHRED_SCORE_DEFAULT)
FASTQ_ENCODING_64 == fastq_encoding(PHRED_OFFSET_64, MAX_PHRED_SCORE_DEFAULT)
FASTQ_ENCODING_SAM == fastq_encoding(PHRED_OFFSET_33, MAX_PHRED_SCORE)
FASTQ_ENCODING_SOLEXA == fastq_encoding_solexa(MAX_PHRED_SCORE_DEFAULT)

Encodings ==
    {FASTQ_ENCODING_33, FASTQ_ENCODING_64, FASTQ_ENCODING_SAM, FASTQ_ENCODING_SOLEXA}

\* round(10 * log10(10^(s / 10) + 1)) for the Solexa scores s = -5 .. 40.
SolexaToPhred ==
    <<1, 1, 2, 2, 3, 3, 4, 4, 5, 5, 6, 7, 8, 9, 10, 10, 11, 12, 13, 14, 15, 16,
      17, 18, 19, 20, 21, 22, 23, 24, 25, 26, 27, 28, 29, 30, 31, 32, 33, 34,
      35, 36, 37, 38, 39, 40>>

\* round(10 * log10(10^(p / 10) - 1)) for the Phred scores p = 0 .. 14, kept
\* within [MIN_SOLEXA_SCORE, ...]; from 15 on the two scales agree.
PhredToSolexa == <<-5, -5, -2, 0, 2, 3, 5, 6, 7, 8, 10, 11, 12, 13, 14>>

\* encode without the limit of m_max_score.
encode_unclamped(enc, phred) == phred + enc.m_offset

\* fastq_encoding::encode / fastq_encoding_solexa::encode: Phred score -> byte.
encode(enc, phred) ==
    IF enc.solexa
    THEN LET s == IF phred < 0 THEN MIN_SOLEXA_SCORE
                  ELSE IF phred < Len(PhredToSolexa) THEN PhredToSolexa[phred + 1]
                  ELSE phred
         IN  Max(MIN_SOLEXA_SCORE, Min(MAX_SOLEXA_SCORE, s)) + enc.m_offset
    ELSE Min(phred, enc.m_max_score) + enc.m_offset

\* The bytes decode accepts.
decodable(enc, raw) ==
    IF enc.solexa
    THEN /\ raw >= enc.m_offset + MIN_SOLEXA_SCORE
         /\ raw <= enc.m_offset + MAX_SOLEXA_SCORE
    ELSE /\ raw >= enc.m_offset + MIN_PHRED_SCORE
         /\ raw <= enc.m_offset + enc.m_max_score

\* fastq_encoding::decode / fastq_encoding_solexa::decode: byte -> Phred score,
\* for a decodable byte.
decode(enc, raw) ==
    IF enc.solexa
    THEN SolexaToPhred[raw - enc.m_offset - MIN_SOLEXA_SCORE + 1]
    ELSE raw - enc.m_offset

\* fastq_encoding::encode_string over the 0-based range [first, end) of a
\* buffer: each canonical Phred+33 byte is replaced, in place, by its encoding.
encode_string(enc, buf, first, end) ==
    [i \in 1..Len(buf) |->
        IF first < i /\ i <= end
        THEN encode(enc, buf[i] - PHRED_OFFSET_33)
        ELSE buf[i]]

\* The 0-based index of the first byte of s that decode rejects, Len(s) if none.
RECURSIVE FirstUndecodable(_, _, _)
FirstUndecodable(enc, s, i) ==
    IF i >= Len(s) \/ ~decodable(enc, s[i + 1]) THEN i
    ELSE FirstUndecodable(enc, s, i + 1)

\* fastq_encoding::decode_string over a whole string, in place and left to
\* right: each byte becomes its canonical Phred+33 byte; the first byte that
\* decode rejects throws, leaving the bytes before it decoded.
decode_string(enc, s) ==
    LET bad == FirstUndecodable(enc, s, 0)
    IN  [err   |-> IF bad < Len(s) THEN "invalid_quality" ELSE "none",
         value |-> [i \in 1..Len(s) |->
                       IF i <= bad THEN decode(enc, s[i]) + PHRED_OFFSET_33
                       ELSE s[i]]]

-----------------------------------------------------------------------------
(* fastq.cc: the record                                                    *)

\* fastq::fastq()
EmptyRecord == [m_header |-> <<>>, m_sequence |-> <<>>, m_qualities |-> <<>>]

\* fastq::length()
length(r) == Len(r.m_sequence)

\* The bytes clean_sequence accepts.
CleanLetters == {Ord["A"], Ord["C"], Ord["G"], Ord["T"], Ord["N"]}
LowerLetters == {Ord["a"], Ord["c"], Ord["g"], Ord["t"], Ord["n"]}

\* The switch with '.' accepted and left as it is.
clean_char_keeps_dot(c) ==
    IF c \in LowerLetters THEN c + (Ord["A"] - Ord["a"]) ELSE c

\* One step of the switch in clean_sequence, for an accepted byte.
clean_char(c) ==
    IF c \in CleanLetters THEN c
    ELSE IF c \in LowerLetters THEN c + (Ord["A"] - Ord["a"])
    ELSE Ord["N"]

\* The 0-based index of the first byte the switch's default case rejects.
RECURSIVE FirstInvalid(_, _)
FirstInvalid(s, i) ==
    IF i >= Len(s) \/ s[i + 1] \notin (CleanLetters \cup LowerLetters \cup {Ord["."]})
    THEN i
    ELSE FirstInvalid(s, i + 1)

\* fastq::clean_sequence, in place and left to right: the first rejected byte
\* throws, leaving the bytes before it cleaned.
clean_sequence(sequence) ==
    LET bad == FirstInvalid(sequence, 0)
    IN  [err   |-> IF bad < Len(sequence) THEN "invalid_character" ELSE "none",
         value |-> [i \in 1..Len(sequence) |->
                       IF i <= bad THEN clean_char(sequence[i]) ELSE sequence[i]]]

\* process_record with the exception of decode_string swallowed.
process_record_unchecked_qualities(r, enc) ==
    IF Len(r.m_qualities) # Len(r.m_sequence)
    THEN [err |-> "length_mismatch", rec |-> r]
    ELSE LET cs == clean_sequence(r.m_sequence)
             r1 == [r EXCEPT !.m_sequence = cs.value]
         IN  IF cs.err # "none"
             THEN [err |-> cs.err, rec |-> r1]
             ELSE [err |-> "none",
                   rec |-> [r1 EXCEPT !.m_qualities =
                                       decode_string(enc, r.m_qualities).value]]

\* fastq::process_record on the object r.
process_record(r, enc) ==
    IF Len(r.m_qualities) # Len(r.m_sequence)
    THEN [err |-> "length_mismatch", rec |-> r]
    ELSE LET cs == clean_sequence(r.m_sequence)
             r1 == [r EXCEPT !.m_sequence = cs.value]
         IN  IF cs.err # "none"
             THEN [err |-> cs.err, rec |-> r1]
             ELSE LET ds == decode_string(enc, r.m_qualities)
                  IN  [err |-> ds.err,
                       rec |-> [r1 EXCEPT !.m_qualities = ds.value]]

\* fastq::fastq(header, sequence, qualities, encoding): the members are
\* initialised and process_record runs; a throw leaves no object.
fastq(header, sequence, qualities, enc) ==
    process_record([m_header |-> header, m_sequence |-> sequence,
                    m_qualities |-> qualities], enc)

\* fastq::operator==
Equal(r1, r2) ==
    /\ r1.m_header = r2.m_header
    /\ r1.m_sequence = r2.m_sequence
    /\ r1.m_qualities = r2.m_qualities

\* The test with >= in place of >: a quality equal to low_quality passes.
trim_test_at_threshold(r, i, trim_ns, low_quality) ==
    IF trim_ns /\ r.m_sequence[i + 1] = Ord["N"] THEN "no"
    ELSE IF i >= Len(r.m_qualities) THEN "throw"
    ELSE IF r.m_qualities[i + 1] >= low_quality THEN "yes"
    ELSE "no"

\* The test both loops of trim_low_quality_bases apply at index i, with the
\* short-circuit order of the code: "throw" when m_qualities.at(i) is reached
\* with i beyond the qualities (std::out_of_range).
trim_test(r, i, trim_ns, low_quality) ==
    IF trim_ns /\ r.m_sequence[i + 1] = Ord["N"] THEN "no"
    ELSE IF i >= Len(r.m_qualities) THEN "throw"
    ELSE IF r.m_qualities[i + 1] > low_quality THEN "yes"
    ELSE "no"

\* The first loop: for (i = 0; i < length; ++i), from index i on.
RECURSIVE lower_scan(_, _, _, _)
lower_scan(r, i, trim_ns, low_quality) ==
    IF i >= Len(r.m_sequence)
    THEN [err |-> "none", bound |-> Len(r.m_sequence)]
    ELSE LET t == trim_test(r, i, trim_ns, low_quality)
         IN  IF t = "throw" THEN [err |-> "out_of_range", bound |-> i]
             ELSE IF t = "yes" THEN [err |-> "none", bound |-> i]
             ELSE lower_scan(r, i + 1, trim_ns, low_quality)

\* The second loop: for (i = length - 1; i > lower_bound; --i), from index i on.
RECURSIVE upper_scan(_, _, _, _, _)
upper_scan(r, i, lower_bound, trim_ns, low_quality) ==
    IF ~(i > lower_bound)
    THEN [err |-> "none", bound |-> lower_bound]
    ELSE LET t == trim_test(r, i, trim_ns, low_quality)
         IN  IF t = "throw" THEN [err |-> "out_of_range", bound |-> i]
             ELSE IF t = "yes" THEN [err |-> "none", bound |-> i]
             ELSE upper_scan(r, i - 1, lower_bound, trim_ns, low_quality)

\* ntrimmed(): a pair of zero counts.
NoneTrimmed == <<SizeT(0), SizeT(0)>>

\* The summary with the right-hand count one too large.
trim_summary_off_by_one(len, lower_bound, upper_bound) ==
    <<SizeT(lower_bound), SizeSub(SizeT(len), SizeT(upper_bound))>>

\* ntrimmed summary(lower_bound, m_sequence.length() - upper_bound - 1), the
\* second count computed in size_t.
trim_summary(len, lower_bound, upper_bound) ==
    <<SizeT(lower_bound), SizeSub(SizeSub(SizeT(len), SizeT(upper_bound)), SizeT(1))>>

\* fastq::trim_low_quality_bases(trim_ns, low_quality) on the object r:
\* [rec: the object afterwards, ret: the ntrimmed pair (size_t values),
\*  err: "none" or the exception thrown].
trim_low_quality_bases(r, trim_ns, threshold) ==
    LET low_quality == threshold + PHRED_OFFSET_33
    IN
    IF r.m_sequence = <<>>
    THEN [rec |-> r, ret |-> NoneTrimmed, err |-> "none"]
    ELSE
    LET lo == lower_scan(r, 0, trim_ns, low_quality)
    IN
    IF lo.err # "none"
    THEN [rec |-> r, ret |-> NoneTrimmed, err |-> lo.err]
    ELSE
    LET lower_bound == lo.bound
        up == upper_scan(r, Len(r.m_sequence) - 1, lower_bound, trim_ns, low_quality)
    IN
    IF up.err # "none"
    THEN [rec |-> r, ret |-> NoneTrimmed, err |-> up.err]
    ELSE
    LET upper_bound == up.bound
        retained == upper_bound - lower_bound + 1
        summary == trim_summary(Len(r.m_sequence), lower_bound, upper_bound)
    IN
    IF summary[1] # SizeT(0) \/ summary[2] # SizeT(0)
    THEN LET r1 == [r EXCEPT !.m_sequence = substr(r.m_sequence, lower_bound, retained)]
         IN  IF lower_bound > Len(r.m_qualities)
             THEN [rec |-> r1, ret |-> NoneTrimmed, err |-> "out_of_range"]
             ELSE [rec |-> [r1 EXCEPT !.m_qualities =
                                 substr(r.m_qualities, lower_bound, retained)],
                   ret |-> summary, err |-> "none"]
    ELSE [rec |-> r, ret |-> summary, err |-> "none"]

\* truncate that clips the sequence and forgets the qualities.
truncate_sequence_only(r, pos, len) ==
    IF (pos # 0 \/ len < length(r)) /\ pos <= Len(r.m_sequence)
    THEN [rec |-> [r EXCEPT !.m_sequence = substr(r.m_sequence, pos, len)],
          err |-> "none"]
    ELSE [rec |-> r, err |-> IF pos > Len(r.m_sequence) THEN "out_of_range" ELSE "none"]

\* truncate that tests only len < length(), and so skips a window that
\* starts after the first base and reaches the end.
truncate_unless_long(r, pos, len) ==
    IF len < length(r)
    THEN IF pos > Len(r.m_sequence)
         THEN [rec |-> r, err |-> "out_of_range"]
         ELSE LET r1 == [r EXCEPT !.m_sequence = substr(r.m_sequence, pos, len)]
              IN  IF pos > Len(r.m_qualities)
                  THEN [rec |-> r1, err |-> "out_of_range"]
                  ELSE [rec |-> [r1 EXCEPT !.m_qualities =
                                      substr(r.m_qualities, pos, len)],
                        err |-> "none"]
    ELSE [rec |-> r, err |-> "none"]

\* fastq::truncate(pos, len) on the object r.
truncate(r, pos, len) ==
    IF pos # 0 \/ len < length(r)
    THEN IF pos > Len(r.m_sequence)
         THEN [rec |-> r, err |-> "out_of_range"]
         ELSE LET r1 == [r EXCEPT !.m_sequence = substr(r.m_sequence, pos, len)]
              IN  IF pos > Len(r.m_qualities)
                  THEN [rec |-> r1, err |-> "out_of_range"]
                  ELSE [rec |-> [r1 EXCEPT !.m_qualities =
                                      substr(r.m_qualities, pos, len)],
                        err |-> "none"]
    ELSE [rec |-> r, err |-> "none"]

\* The table with 'G' mapped to itself.
complements_g_to_g ==
    Str(<<"-", "T", "-", "G", "A", "-", "-", "G",
          "-", "-", "-", "-", "-", "-", "N", "-">>)

\* static const char complements[] = "-T-GA--C------N-", indexed from 0.
complements ==
    Str(<<"-", "T", "-", "G", "A", "-", "-", "C",
          "-", "-", "-", "-", "-", "-", "N", "-">>)

\* complements[*it & 0xf]
complement(c) == complements[(c % 16) + 1]

\* fastq::reverse_complement() on the object r.
reverse_complement(r) ==
    LET rs == reverse(r.m_sequence)
    IN  [r EXCEPT !.m_sequence  = [i \in 1..Len(rs) |-> complement(rs[i])],
                  !.m_qualities = reverse(r.m_qualities)]

\* fastq::add_prefix_to_header(prefix) on the object r.
add_prefix_to_header(r, prefix) == [r EXCEPT !.m_header = prefix \o r.m_header]

\* The header line taken whole, '@' included.
header_with_at(header_line) == header_line

\* m_header = it->substr(1)
header_of(header_line) == substr(header_line, 1, Len(header_line))

\* fastq::read(it, end, encoding) on the object r, with end = lines.end():
\* [rec: the object afterwards, it: the iterator afterwards, ret: the value
\*  returned, err: "none" or the fastq_error thrown].
read(r, ls, i, enc) ==
    IF i = Len(ls)
    THEN [rec |-> r, it |-> i, ret |-> FALSE, err |-> "none"]
    ELSE
    LET header_line == ls[i + 1]
    IN
    IF header_line = <<>> \/ header_line[1] # Ord["@"]
    THEN [rec |-> r, it |-> i, ret |-> FALSE, err |-> "header_without_at"]
    ELSE
    LET r1 == [r EXCEPT !.m_header = header_of(header_line)]
    IN
    IF r1.m_header = <<>>
    THEN [rec |-> r1, it |-> i, ret |-> FALSE, err |-> "empty_header"]
    ELSE IF i + 1 = Len(ls)
    THEN [rec |-> r1, it |-> i + 1, ret |-> FALSE, err |-> "cut_after_header"]
    ELSE
    LET r2 == [r1 EXCEPT !.m_sequence = ls[i + 2]]
    IN
    IF r2.m_sequence = <<>>
    THEN [rec |-> r2, it |-> i + 2, ret |-> FALSE, err |-> "empty_sequence"]
    ELSE IF i + 2 = Len(ls)
    THEN [rec |-> r2, it |-> i + 2, ret |-> FALSE, err |-> "cut_after_sequence"]
    ELSE
    LET separator == ls[i + 3]
    IN
    IF separator = <<>> \/ separator[1] # Ord["+"]
    THEN [rec |-> r2, it |-> i + 3, ret |-> FALSE, err |-> "no_separator"]
    ELSE IF i + 3 = Len(ls)
    THEN [rec |-> r2, it |-> i + 3, ret |-> FALSE, err |-> "cut_after_separator"]
    ELSE
    LET r3 == [r2 EXCEPT !.m_qualities = ls[i + 4]]
    IN
    IF r3.m_sequence = <<>>
    THEN [rec |-> r3, it |-> i + 4, ret |-> FALSE, err |-> "empty_sequence"]
    ELSE
    LET p == process_record(r3, enc)
    IN  [rec |-> p.rec, it |-> i + 4, ret |-> (p.err = "none"), err |-> p.err]

\* The fastq_error messages of read() and process_record that report a
\* malformed record, and the one of decode that reports a bad quality byte.
FormatErrors ==
    {"header_without_at", "empty_header", "cut_after_header", "empty_sequence",
     "cut_after_sequence", "no_separator", "cut_after_separator",
     "length_mismatch", "invalid_character"}
EncodingErrors == {"invalid_quality"}

\* quality_start one byte early, on the '\n' before the qualities.
quality_start_one_early(r) == Len(r.m_header) + Len(r.m_sequence) + 4

\* size_t quality_start = m_header.size() + m_sequence.size() + 5
quality_start_of(r) == Len(r.m_header) + Len(r.m_sequence) + 5

\* fastq::to_str(encoding) on the object r: the outcomes of the call.  The
\* in-place encoding covers [quality_start, quality_start + m_sequence.size());
\* when that range ends beyond the buffer the behaviour is undefined, and the
\* outcomes are a crash and the buffer with the part in range encoded.
to_str(r, enc) ==
    LET result == <<Ord["@"]>> \o r.m_header \o <<Ord["\n"]>> \o r.m_sequence
                  \o <<Ord["\n"], Ord["+"], Ord["\n"]>> \o r.m_qualities
                  \o <<Ord["\n"]>>
        quality_start == quality_start_of(r)
        quality_end == quality_start + Len(r.m_sequence)
    IN  IF quality_end <= Len(result)
        THEN {[ret |-> encode_string(enc, result, quality_start, quality_end),
               err |-> "none"]}
        ELSE {[ret |-> <<>>, err |-> "undefined"],
              [ret |-> encode_string(enc, result, quality_start, Len(result)),
               err |-> "undefined"]}

\* The 0-based index of the first ' ' of header at or after i, Len(header) if
\* there is none: header.find_first_of(' ') with npos replaced by the length.
RECURSIVE find_first_space(_, _)
find_first_space(header, i) ==
    IF i >= Len(header) \/ header[i + 1] = Ord[" "] THEN i
    ELSE find_first_space(header, i + 1)

\* get_mate_information(read): [name, mate], mate one of "unknown", "mate1",
\* "mate2".
get_mate_information(r) ==
    LET header == r.m_header
        pos == find_first_space(header, 0)
        tail == IF pos >= 2 THEN substr(header, pos - 2, 2) ELSE <<>>
        mate == IF tail = Str(<<"/", "1">>) THEN "mate1"
                ELSE IF tail = Str(<<"/", "2">>) THEN "mate2"
                ELSE "unknown"
    IN  [name |-> substr(header, 0, IF mate = "unknown" THEN pos ELSE pos - 2),
         mate |-> mate]

\* validate_paired_reads without the check of the mate numbers.
validate_names_only(m1, m2) ==
    IF length(m1) = 0 \/ length(m2) = 0 THEN "empty_reads"
    ELSE IF get_mate_information(m1).name # get_mate_information(m2).name
    THEN "mismatching_names"
    ELSE "none"

\* fastq::validate_paired_reads(mate1, mate2): "none" or the fastq_error thrown.
validate_paired_reads(m1, m2) ==
    IF length(m1) = 0 \/ length(m2) = 0 THEN "empty_reads"
    ELSE LET info1 == get_mate_information(m1)
             info2 == get_mate_information(m2)
         IN  IF info1.name # info2.name THEN "mismatching_names"
             ELSE IF /\ (info1.mate # "unknown" \/ info2.mate # "unknown")
                     /\ (info1.mate # "mate1" \/ info2.mate # "mate2")
             THEN "inconsistent_mate_numbering"
             ELSE "none"

-----------------------------------------------------------------------------
(* Inputs                                                                  *)

\* Longest sequence / quality string the 4-argument constructor is given
\* exhaustively.
MaxLen == 2
\* add_prefix_to_header is applied while the header stays this short.
MaxHeaderLen == 2
\* Longest line source read() is given exhaustively.
MaxLines == 5
\* Longest header validate_paired_reads is given exhaustively.
MaxPairHeaderLen == 2

\* Sequence bytes: accepted as they are, lower case, '.', and rejected.
SeqLetters == {Ord["A"], Ord["N"], Ord["c"], Ord["."], Ord["X"]}
\* Quality bytes: '#' and 'I' are Phred+33 scores 2 and 40; '#' lies below
\* the bytes Phred+64 and Solexa accept, where 'I' is Phred+64 score 9 and
\* Solexa score 9 (Phred 10).
QualBytes == {Ord["#"], Ord["I"]}

ExampleInputs ==
    {<<<<>>, Str(<<"A">>), Str(<<"I">>)>>,
     <<<<>>, <<>>, <<>>>>,
     <<Str(<<"r">>), Str(<<"a", "c", "g", "t", "n", ".">>),
       Str(<<"I", "I", "I", "I", "I", "I">>)>>,
     <<Str(<<"r">>), Str(<<"A", "C", "G", "T", "N">>),
       Str(<<"I", "I", "I", "I", "#">>)>>,
     <<Str(<<"r">>), Str(<<"A", "C", "G">>), Str(<<"#", "I", "#">>)>>,
     <<Str(<<"r">>), Str(<<"N", "T", "N">>), Str(<<"I", "I", "I">>)>>,
     <<Str(<<"r">>), Str(<<"G", "N", "T">>), Str(<<"#", "#", "#">>)>>}

\* <<header, sequence, qualities>> triples handed to the constructor.
FieldInputs ==
    ({Str(<<"r">>)} \X Strings(SeqLetters, MaxLen) \X Strings(QualBytes, MaxLen))
    \cup ExampleInputs

\* Phred scores handed to trim_low_quality_bases as low_quality; with
\* PHRED_OFFSET_33 added they stay within a char.
Thresholds == {2, 10, 40}

Prefixes == {Str(<<"M">>)}

\* Line sources of the record's life: one well-formed record; a record
\* with lower-case bases followed by one cut off after its sequence; a record
\* whose quality line is too short.
ExampleLines ==
    <<Str(<<"@", "r", "1", "/", "1">>), Str(<<"A", "C", "G", "T", "N">>),
      Str(<<"+">>), Str(<<"I", "I", "I", "I", "#">>)>>
CutOffLines ==
    <<Str(<<"@", "r">>), Str(<<"a", ".">>), Str(<<"+", "r">>), Str(<<"I", "#">>),
      Str(<<"@", "B">>), Str(<<"C">>)>>
ShortQualityLines ==
    <<Str(<<"@", "r">>), Str(<<"A", "N">>), Str(<<"+">>), Str(<<"I">>)>>
LineSources == {ExampleLines, CutOffLines, ShortQualityLines}

\* Lines of the exhaustive line sources.
LinePool ==
    {Str(<<"@", "r">>), Str(<<"@">>), Str(<<"A", "N">>), <<>>, Str(<<"+">>),
     Str(<<"I", "#">>)}

\* Header bytes of the exhaustive pairs, and headers beyond MaxPairHeaderLen.
PairLetters == {Ord["r"], Ord["/"], Ord["1"], Ord["2"], Ord[" "]}
ExampleHeaders ==
    {Str(<<"r", "/", "1">>), Str(<<"r", "/", "2">>), Str(<<"r", "A">>),
     Str(<<"r", "B">>), Str(<<"r", "A", "/", "1">>), Str(<<"r", "B", "/", "2">>),
     Str(<<"r", "/", "1", " ", "M">>), Str(<<"r", "/", "2", " ", "/", "1">>),
     Str(<<"r", " ", "/", "1">>)}
PairHeaders == Strings(PairLetters, MaxPairHeaderLen) \cup ExampleHeaders

\* A record with the given header that is empty, or holds one base.
PairRecord(header, empty) ==
    [m_header |-> header,
     m_sequence |-> IF empty THEN <<>> ELSE Str(<<"A">>),
     m_qualities |-> IF empty THEN <<>> ELSE Str(<<"I">>)]

\* The encodings the constructors accept (offset 33 or 64, max_score within
\* [MIN_PHRED_SCORE, MAX_PHRED_SCORE]) whose bytes all lie within '!' .. '~',
\* and the Solexa encoding.
ConfiguredEncodings ==
    {e \in {fastq_encoding(o, m) : o \in {PHRED_OFFSET_33, PHRED_OFFSET_64},
                                   m \in MIN_PHRED_SCORE..MAX_PHRED_SCORE} :
        e.m_offset + e.m_max_score <= Ord["~"]}
    \cup {FASTQ_ENCODING_SOLEXA}

\* The lowest byte an encoding stands for: its offset, and for Solexa the
\* offset plus MIN_SOLEXA_SCORE.
lowest_byte(enc) ==
    enc.m_offset + (IF enc.solexa THEN MIN_SOLEXA_SCORE ELSE MIN_PHRED_SCORE)

\* Quality bytes at and next to the ends of the ranges of the four encodings.
EdgeBytes ==
    UNION {{lowest_byte(enc) - 1, lowest_byte(enc), enc.m_offset - 1, enc.m_offset,
            enc.m_offset + enc.m_max_score, enc.m_offset + enc.m_max_score + 1}
           : enc \in Encodings}

\* A quality line of n bytes, raw at the 1-based position k and the byte of
\* score 0 under enc elsewhere.
QualitiesWith(enc, raw, n, k) == [i \in 1..n |-> IF i = k THEN raw ELSE enc.m_offset]

\* The four lines of a record with that quality line; its n bases are all 'A',
\* or all 'X' (which clean_sequence rejects).
EdgeLines(qualities, clean) ==
    <<Str(<<"@", "r">>),
      [i \in 1..Len(qualities) |-> IF clean THEN Ord["A"] ELSE Ord["X"]],
      Str(<<"+">>), qualities>>

NoCall == [op |-> "init", args |-> <<>>, pre |-> EmptyRecord, ret |-> <<>>,
           err |-> "none"]

-----------------------------------------------------------------------------
(* The record's life: construction, then calls on the object               *)

\* Either the program builds the object with the 4-argument constructor, or
\* it default-constructs it and reads records into it from a line source.
Init ==
    /\ rec = EmptyRecord
    /\ mate2 = EmptyRecord
    /\ it = 0
    /\ last = NoCall
    /\ \/ origin = "none" /\ lines = <<>>
       \/ origin = "default" /\ lines \in LineSources

\* fastq record(header, sequence, qualities, encoding)
Construct ==
    /\ origin = "none"
    /\ last.op = "init"
    /\ \E f \in FieldInputs, enc \in Encodings :
          LET p == fastq(f[1], f[2], f[3], enc)
          IN  /\ rec' = IF p.err = "none" THEN p.rec ELSE rec
              /\ origin' = IF p.err = "none" THEN "fields" ELSE "none"
              /\ last' = [op |-> "fastq", args |-> <<f[1], f[2], f[3], enc>>,
                          pre |-> rec, ret |-> <<>>, err |-> p.err]
    /\ UNCHANGED <<lines, it, mate2>>

\* record.read(it, lines.end(), encoding)
Read ==
    /\ origin # "none"
    /\ \E enc \in Encodings :
          LET p == read(rec, lines, it, enc)
          IN  /\ rec' = p.rec
              /\ it' = p.it
              /\ origin' = IF p.err # "none" /\ p.rec # rec THEN "failed_parse"
                           ELSE IF p.ret THEN "parse"
                           ELSE origin
              /\ last' = [op |-> "read", args |-> <<enc, it>>, pre |-> rec,
                          ret |-> p.ret, err |-> p.err]
    /\ UNCHANGED <<lines, mate2>>

\* record.trim_low_quality_bases(trim_ns, low_quality)
Trim ==
    /\ origin # "none"
    /\ \E trim_ns \in BOOLEAN, low_quality \in Thresholds :
          LET p == trim_low_quality_bases(rec, trim_ns, low_quality)
          IN  /\ rec' = p.rec
              /\ last' = [op |-> "trim_low_quality_bases",
                          args |-> <<trim_ns, low_quality>>, pre |-> rec,
                          ret |-> p.ret, err |-> p.err]
    /\ UNCHANGED <<origin, lines, it, mate2>>

\* record.truncate(pos, len)
Truncate ==
    /\ origin # "none"
    /\ \E pos \in 0..(length(rec) + 1), len \in 0..(length(rec) + 1) :
          LET p == truncate(rec, pos, len)
          IN  /\ rec' = p.rec
              /\ last' = [op |-> "truncate", args |-> <<pos, len>>, pre |-> rec,
                          ret |-> <<>>, err |-> p.err]
    /\ UNCHANGED <<origin, lines, it, mate2>>

\* record.reverse_complement()
ReverseComplement ==
    /\ origin # "none"
    /\ rec' = reverse_complement(rec)
    /\ last' = [op |-> "reverse_complement", args |-> <<>>, pre |-> rec,
                ret |-> <<>>, err |-> "none"]
    /\ UNCHANGED <<origin, lines, it, mate2>>

\* record.add_prefix_to_header(prefix)
AddPrefix ==
    /\ origin # "none"
    /\ \E prefix \in Prefixes :
          /\ Len(rec.m_header) + Len(prefix) <= MaxHeaderLen
          /\ rec' = add_prefix_to_header(rec, prefix)
          /\ last' = [op |-> "add_prefix_to_header", args |-> <<prefix>>,
                      pre |-> rec, ret |-> <<>>, err |-> "none"]
    /\ UNCHANGED <<origin, lines, it, mate2>>

\* record.to_str(encoding)
ToStr ==
    /\ origin # "none"
    /\ \E enc \in Encodings :
          \E p \in to_str(rec, enc) :
              last' = [op |-> "to_str", args |-> <<enc>>, pre |-> rec,
                       ret |-> p.ret, err |-> p.err]
    /\ UNCHANGED <<rec, origin, lines, it, mate2>>

Next ==
    \/ Construct
    \/ Read
    \/ Trim
    \/ Truncate
    \/ ReverseComplement
    \/ AddPrefix
    \/ ToStr

Spec == Init /\ [][Next]_vars

-----------------------------------------------------------------------------
(* Reading records from every short line source                            *)

InitRead ==
    /\ rec = EmptyRecord
    /\ mate2 = EmptyRecord
    /\ it = 0
    /\ last = NoCall
    /\ origin = "default"
    /\ lines \in Strings(LinePool, MaxLines)

SpecRead == InitRead /\ [][Read]_vars

-----------------------------------------------------------------------------
(* Validating pairs of records                                             *)

InitPair ==
    /\ \E h1 \in PairHeaders, h2 \in PairHeaders, e1 \in BOOLEAN, e2 \in BOOLEAN :
          /\ rec = PairRecord(h1, e1)
          /\ mate2 = PairRecord(h2, e2)
    /\ origin = "fields"
    /\ lines = <<>>
    /\ it = 0
    /\ last = NoCall

\* fastq::validate_paired_reads(record, mate2)
ValidatePairedReads ==
    /\ last.op = "init"
    /\ last' = [op |-> "validate_paired_reads", args |-> <<>>, pre |-> rec,
                ret |-> <<>>, err |-> validate_paired_reads(rec, mate2)]
    /\ UNCHANGED <<rec, origin, lines, it, mate2>>

SpecPair == InitPair /\ [][ValidatePairedReads]_vars

-----------------------------------------------------------------------------
(* Encoding and decoding single scores                                     *)

\* An encoding and a Phred score are picked; the score is encoded, and the
\* byte is decoded again.
InitEnc ==
    /\ rec = EmptyRecord
    /\ mate2 = EmptyRecord
    /\ it = 0
    /\ origin = "none"
    /\ lines = <<>>
    /\ \E enc \in ConfiguredEncodings, phred \in MIN_PHRED_SCORE..MAX_PHRED_SCORE :
          last = [op |-> "pick", args |-> <<enc, phred>>, pre |-> EmptyRecord,
                  ret |-> <<>>, err |-> "none"]

\* encoding.encode(phred)
Encode ==
    /\ last.op = "pick"
    /\ last' = [last EXCEPT !.op = "encode",
                            !.ret = encode(last.args[1], last.args[2])]
    /\ UNCHANGED <<rec, origin, lines, it, mate2>>

\* encoding.decode(raw), raw the byte encode returned
Decode ==
    /\ last.op = "encode"
    /\ LET enc == last.args[1]
           raw == last.ret
       IN  last' = IF decodable(enc, raw)
                   THEN [last EXCEPT !.op = "decode", !.pre = raw,
                                     !.ret = decode(enc, raw)]
                   ELSE [last EXCEPT !.op = "decode", !.pre = raw,
                                     !.err = "invalid_quality"]
    /\ UNCHANGED <<rec, origin, lines, it, mate2>>

NextEnc ==
    \/ Encode
    \/ Decode

SpecEnc == InitEnc /\ [][NextEnc]_vars

-----------------------------------------------------------------------------
(* Decoding bytes at the ends of an encoding's range                       *)

\* An encoding and a byte are picked, and a line source whose quality line
\* holds that byte.
InitDecode ==
    /\ rec = EmptyRecord
    /\ mate2 = EmptyRecord
    /\ it = 0
    /\ origin = "default"
    /\ \E enc \in Encodings, raw \in EdgeBytes, n \in 1..MaxLen, k \in 1..MaxLen,
          clean \in BOOLEAN :
          /\ k <= n
          /\ lines = EdgeLines(QualitiesWith(enc, raw, n, k), clean)
          /\ last = [op |-> "pick", args |-> <<enc, raw>>, pre |-> EmptyRecord,
                     ret |-> <<>>, err |-> "none"]

\* encoding.decode(raw), raw the byte picked
DecodeRaw ==
    /\ last.op = "pick"
    /\ LET enc == last.args[1]
           raw == last.args[2]
       IN  last' = IF decodable(enc, raw)
                   THEN [last EXCEPT !.op = "decode", !.ret = decode(enc, raw)]
                   ELSE [last EXCEPT !.op = "decode", !.err = "invalid_quality"]
    /\ UNCHANGED <<rec, origin, lines, it, mate2>>

\* fastq record(header, sequence, qualities, encoding), the fields those of
\* the line source and the encoding the one picked
ConstructFromLines ==
    /\ last.op = "pick"
    /\ LET enc == last.args[1]
           p == fastq(header_of(lines[1]), lines[2], lines[4], enc)
       IN  /\ rec' = IF p.err = "none" THEN p.rec ELSE rec
           /\ origin' = IF p.err = "none" THEN "fields" ELSE origin
           /\ last' = [op |-> "fastq",
                       args |-> <<header_of(lines[1]), lines[2], lines[4], enc>>,
                       pre |-> rec, ret |-> <<>>, err |-> p.err]
    /\ UNCHANGED <<lines, it, mate2>>

NextDecode ==
    \/ DecodeRaw
    \/ ConstructFromLines
    \/ Read

SpecDecode == InitDecode /\ [][NextDecode]_vars

-----------------------------------------------------------------------------
(* Properties                                                              *)

\* The object holds what a successful constructor call or a successful read()
\* put there, possibly changed since by trim_low_quality_bases, truncate,
\* reverse_complement and add_prefix_to_header.
Produced == origin \in {"fields", "parse"}

\* Every base of r fails the test of trim_low_quality_bases.
NoAcceptableBase(r, trim_ns, threshold) ==
    \A i \in 1..Len(r.m_sequence) :
        \/ r.m_qualities[i] - PHRED_OFFSET_33 <= threshold
        \/ trim_ns /\ r.m_sequence[i] = Ord["N"]

\* C1: a record produced by a successful construction or parse, after any
\* calls of trim_low_quality_bases, truncate, reverse_complement and
\* add_prefix_to_header, has a sequence and qualities of the same length.
C1_SameLength == Produced => Len(rec.m_sequence) = Len(rec.m_qualities)

\* A produced record that truncate(pos > 0, len) has just shortened to a
\* non-empty one.
C1_Witness ==
    /\ Produced
    /\ last.op = "truncate"
    /\ last.err = "none"
    /\ last.args[1] > 0
    /\ rec.m_sequence # <<>>
    /\ Len(rec.m_sequence) < Len(last.pre.m_sequence)

\* C2: the constructor fails when given an empty sequence, and a record just
\* obtained from a successful construction or parse has a non-empty sequence
\* and a non-empty header.
C2_NonEmptyAfterConstruction ==
    /\ (last.op = "fastq" /\ last.args[2] = <<>>) => last.err # "none"
    /\ (/\ last.op \in {"fastq", "read"}
        /\ last.err = "none"
        /\ Produced
        /\ last.op = "read" => last.ret)
       => (rec.m_sequence # <<>> /\ rec.m_header # <<>>)

\* C3: trimming a non-empty produced record of length L without an acceptable
\* base raises no error, leaves length 0 and returns counts whose size_t sum
\* is L.
C3_TrimEverything ==
    (/\ last.op = "trim_low_quality_bases"
     /\ Produced
     /\ last.pre.m_sequence # <<>>
     /\ NoAcceptableBase(last.pre, last.args[1], last.args[2]))
    => /\ last.err = "none"
       /\ Len(rec.m_sequence) = 0
       /\ Len(rec.m_qualities) = 0
       /\ SizeAdd(last.ret[1], last.ret[2]) = SizeT(Len(last.pre.m_sequence))

\* The object holds what the constructors, successful reads and the mutating
\* calls put there; no read() has thrown half-way through filling it.
Intact == origin \in {"default", "fields", "parse"}

\* C4: after trim_low_quality_bases(trim_ns, low_quality) has returned, a
\* second call with the same arguments returns (0, 0) and leaves header,
\* sequence and qualities as the first call left them.
C4_TrimIdempotent ==
    (last.op = "trim_low_quality_bases" /\ last.err = "none" /\ Intact)
    => LET again == trim_low_quality_bases(rec, last.args[1], last.args[2])
       IN  /\ again.err = "none"
           /\ again.ret = NoneTrimmed
           /\ Equal(again.rec, rec)

\* A first call that removed bases from both ends and kept at least one.
C4_Witness ==
    /\ last.op = "trim_low_quality_bases"
    /\ last.err = "none"
    /\ Produced
    /\ last.ret[1] # SizeT(0)
    /\ last.ret[2] # SizeT(0)
    /\ rec.m_sequence # <<>>

\* The complement of the claim: A <-> T, C <-> G, N <-> N.
WatsonCrick ==
    (Ord["A"] :> Ord["T"]) @@ (Ord["T"] :> Ord["A"]) @@ (Ord["C"] :> Ord["G"]) @@
    (Ord["G"] :> Ord["C"]) @@ (Ord["N"] :> Ord["N"])

\* C5: on a record whose sequence holds only A, C, G, T, N, one
\* reverse_complement gives sequence[i] = complement(old sequence[L-1-i]),
\* qualities[i] = old qualities[L-1-i] and the same header, and a second one
\* gives back a record equal to the original.
C5_ReverseComplementInvolution ==
    (/\ last.op = "reverse_complement"
     /\ \A i \in 1..Len(last.pre.m_sequence) : last.pre.m_sequence[i] \in DOMAIN WatsonCrick)
    => LET old == last.pre
           L == Len(old.m_sequence)
           Lq == Len(old.m_qualities)
       IN  /\ rec.m_header = old.m_header
           /\ Len(rec.m_sequence) = L
           /\ \A i \in 1..L : rec.m_sequence[i] = WatsonCrick[old.m_sequence[L + 1 - i]]
           /\ Len(rec.m_qualities) = Lq
           /\ \A i \in 1..Lq : rec.m_qualities[i] = old.m_qualities[Lq + 1 - i]
           /\ Equal(reverse_complement(rec), old)

\* "ACGTN" with qualities "IIII#" has become "NACGT" with "#IIII".
C5_Witness ==
    /\ last.op = "reverse_complement"
    /\ last.pre.m_sequence = Str(<<"A", "C", "G", "T", "N">>)
    /\ rec.m_sequence = Str(<<"N", "A", "C", "G", "T">>)
    /\ rec.m_qualities = Str(<<"#", "I", "I", "I", "I">>)

\* The point of a header the claim names: its first space, or its end.
NamePoint(header) ==
    CHOOSE p \in 0..Len(header) :
        /\ p = Len(header) \/ header[p + 1] = Ord[" "]
        /\ \A q \in 1..p : header[q] # Ord[" "]

\* The mate suffix right before that point: "/1", "/2" or none.
MateSuffix(header) ==
    LET p == NamePoint(header)
    IN  IF p >= 2 /\ header[p - 1] = Ord["/"] /\ header[p] \in {Ord["1"], Ord["2"]}
        THEN <<header[p - 1], header[p]>>
        ELSE <<>>

\* The header up to that point, without the mate suffix.
MateName(header) ==
    SubSeq(header, 1, NamePoint(header) - Len(MateSuffix(header)))

\* The pairs the claim says pass.
PairPasses(m1, m2) ==
    /\ m1.m_sequence # <<>>
    /\ m2.m_sequence # <<>>
    /\ MateName(m1.m_header) = MateName(m2.m_header)
    /\ \/ MateSuffix(m1.m_header) = <<>> /\ MateSuffix(m2.m_header) = <<>>
       \/ /\ MateSuffix(m1.m_header) = Str(<<"/", "1">>)
          /\ MateSuffix(m2.m_header) = Str(<<"/", "2">>)

\* Both records are non-empty and their headers are h1 and h2.
PairOf(h1, h2) ==
    /\ rec = PairRecord(Str(h1), FALSE)
    /\ mate2 = PairRecord(Str(h2), FALSE)

\* C6: validate_paired_reads succeeds exactly on the pairs the claim says
\* pass: (read/1, read/2) and (read, read) pass; (read/1, read/1),
\* (read/2, read/1), (read/1, read) and (readA, readB) fail.
C6_PairValidation ==
    last.op = "validate_paired_reads"
    => /\ (last.err = "none") <=> PairPasses(rec, mate2)
       /\ PairOf(<<"r", "/", "1">>, <<"r", "/", "2">>) => last.err = "none"
       /\ PairOf(<<"r">>, <<"r">>) => last.err = "none"
       /\ PairOf(<<"r", "/", "1">>, <<"r", "/", "1">>) => last.err # "none"
       /\ PairOf(<<"r", "/", "2">>, <<"r", "/", "1">>) => last.err # "none"
       /\ PairOf(<<"r", "/", "1">>, <<"r">>) => last.err # "none"
       /\ PairOf(<<"r", "A">>, <<"r", "B">>) => last.err # "none"

\* Two mates with equal names and the suffixes the wrong way round were
\* refused.
C6_Witness ==
    /\ last.op = "validate_paired_reads"
    /\ PairOf(<<"r", "/", "2">>, <<"r", "/", "1">>)
    /\ last.err = "inconsistent_mate_numbering"

\* C7: to_str(encoding) on an intact record returns '@' header '\n' sequence
\* "\n+\n" E '\n', E as long as the stored qualities with E[i] the encoding
\* of stored quality i, and leaves the record as it was.
C7_Serialize ==
    (last.op = "to_str" /\ Intact)
    => LET enc == last.args[1]
           E == [i \in 1..Len(rec.m_qualities) |->
                    encode(enc, rec.m_qualities[i] - PHRED_OFFSET_33)]
       IN  /\ last.err = "none"
           /\ last.ret = <<Ord["@"]>> \o rec.m_header \o <<Ord["\n"]>>
                         \o rec.m_sequence \o <<Ord["\n"], Ord["+"], Ord["\n"]>>
                         \o E \o <<Ord["\n"]>>
           /\ Equal(rec, last.pre)

\* A record with a header and two or more bases was written as Phred+64.
C7_Witness ==
    /\ last.op = "to_str"
    /\ Produced
    /\ last.args[1] = FASTQ_ENCODING_64
    /\ rec.m_header # <<>>
    /\ Len(rec.m_qualities) >= 2
    /\ last.ret[Len(last.ret) - 1] # rec.m_qualities[Len(rec.m_qualities)]

\* What the claim says each accepted sequence byte becomes.
NormalForm ==
    (Ord["a"] :> Ord["A"]) @@ (Ord["c"] :> Ord["C"]) @@ (Ord["g"] :> Ord["G"]) @@
    (Ord["t"] :> Ord["T"]) @@ (Ord["n"] :> Ord["N"]) @@ (Ord["."] :> Ord["N"]) @@
    (Ord["A"] :> Ord["A"]) @@ (Ord["C"] :> Ord["C"]) @@ (Ord["G"] :> Ord["G"]) @@
    (Ord["T"] :> Ord["T"]) @@ (Ord["N"] :> Ord["N"])

Normalized(sequence) == [i \in 1..Len(sequence) |-> NormalForm[sequence[i]]]

\* The four lines of ls from the 0-based index i on are a well-formed record
\* under enc.
WellFormedAt(ls, i, enc) ==
    LET header_line == ls[i + 1]
        sequence == ls[i + 2]
        separator == ls[i + 3]
        qualities == ls[i + 4]
    IN  /\ Len(header_line) >= 2
        /\ header_line[1] = Ord["@"]
        /\ sequence # <<>>
        /\ \A j \in 1..Len(sequence) : sequence[j] \in DOMAIN NormalForm
        /\ separator # <<>>
        /\ separator[1] = Ord["+"]
        /\ Len(qualities) = Len(sequence)
        /\ \A j \in 1..Len(qualities) : decodable(enc, qualities[j])

\* C8: read() with k lines left: k = 0 returns false and consumes nothing;
\* 1 <= k <= 3 throws a format error; k >= 4 with four well-formed lines
\* returns true, the header is the first line without its '@', and the
\* iterator has advanced by exactly four lines.
C8_ParseNextRecord ==
    last.op = "read"
    => LET enc == last.args[1]
           from == last.args[2]
           k == Len(lines) - from
       IN  /\ k = 0 => /\ last.ret = FALSE
                       /\ last.err = "none"
                       /\ it = from
                       /\ Equal(rec, last.pre)
           /\ k \in 1..3 => /\ last.ret = FALSE
                            /\ last.err \in FormatErrors
           /\ (k >= 4 /\ WellFormedAt(lines, from, enc))
              => /\ last.ret = TRUE
                 /\ last.err = "none"
                 /\ rec.m_header = Tail(lines[from + 1])
                 /\ it = from + 4

\* The first four of five lines were read as a record.
C8_Witness ==
    /\ last.op = "read"
    /\ last.ret = TRUE
    /\ last.args[2] = 0
    /\ Len(lines) = 5
    /\ it = 4
    /\ rec.m_header = Str(<<"r">>)

\* C9: construction turns a, c, g, t, n into upper case and '.' into N, keeps
\* A, C, G, T, N ("acgtn." becomes "ACGTNN") and fails with a format error on
\* any other byte; a produced record's sequence holds only A, C, G, T, N.
C9_SequenceNormalization ==
    /\ last.op = "fastq"
       => LET sequence == last.args[2]
              qualities == last.args[3]
              enc == last.args[4]
          IN  /\ (\E i \in 1..Len(sequence) : sequence[i] \notin DOMAIN NormalForm)
                 => last.err \in FormatErrors
              /\ last.err = "none" => rec.m_sequence = Normalized(sequence)
              /\ (/\ \A i \in 1..Len(sequence) : sequence[i] \in DOMAIN NormalForm
                  /\ Len(qualities) = Len(sequence)
                  /\ \A i \in 1..Len(qualities) : decodable(enc, qualities[i]))
                 => last.err = "none"
              /\ (sequence = Str(<<"a", "c", "g", "t", "n", ".">>) /\ last.err = "none")
                 => rec.m_sequence = Str(<<"A", "C", "G", "T", "N", "N">>)
    /\ (last.op = "read" /\ last.ret = TRUE)
       => rec.m_sequence = Normalized(lines[last.args[2] + 2])
    /\ Produced
       => \A i \in 1..Len(rec.m_sequence) : rec.m_sequence[i] \in CleanLetters

\* "acgtn." was constructed into "ACGTNN".
C9_Witness ==
    /\ last.op = "fastq"
    /\ last.err = "none"
    /\ last.args[2] = Str(<<"a", "c", "g", "t", "n", ".">>)
    /\ rec.m_sequence = Str(<<"A", "C", "G", "T", "N", "N">>)

\* C10: for a Phred encoding with maximum m and a score s in 0 .. 93,
\* decode(encode(s)) = min(s, m), and encode(s) = encode(m) when s > m.
C10_RoundTrip ==
    (last.op = "decode" /\ ~last.args[1].solexa)
    => LET enc == last.args[1]
           s == last.args[2]
       IN  /\ last.err = "none"
           /\ last.ret = Min(s, enc.m_max_score)
           /\ s > enc.m_max_score => last.pre = encode(enc, enc.m_max_score)
           /\ s <= enc.m_max_score => last.ret = s

\* Score 93 went through Phred+64 with maximum 41 and came back as 41.
C10_Witness ==
    /\ last.op = "decode"
    /\ last.args[1] = FASTQ_ENCODING_64
    /\ last.args[2] = MAX_PHRED_SCORE
    /\ last.err = "none"
    /\ last.ret = MAX_PHRED_SCORE_DEFAULT

\* The bytes next to an encoding's range as the claim names them.
ClaimedEdges ==
    [enc \in Encodings |-> {enc.m_offset - 1, enc.m_offset + enc.m_max_score + 1}]

\* The bytes next to an encoding's range, the lower one counted from the
\* lowest byte the encoding stands for.
RejectedEdges ==
    [enc \in Encodings |->
        {lowest_byte(enc) - 1, enc.m_offset + enc.m_max_score + 1}]

\* A record given as header, sequence and qualities is well-formed but for
\* the values of its quality bytes.
WellFormedButQualities(header, sequence, qualities) ==
    /\ sequence # <<>>
    /\ \A j \in 1..Len(sequence) : sequence[j] \in DOMAIN NormalForm
    /\ Len(qualities) = Len(sequence)

\* decode fails with the encoding error on the bytes Edge[enc]; constructing
\* or parsing a record whose qualities hold such a byte fails, with the
\* encoding error when the record is otherwise well-formed.
FailsOn(Edge) ==
    /\ (last.op = "decode" /\ last.args[2] \in Edge[last.args[1]])
       => last.err \in EncodingErrors
    /\ last.op = "fastq"
       => LET sequence == last.args[2]
              qualities == last.args[3]
              enc == last.args[4]
          IN  (\E i \in 1..Len(qualities) : qualities[i] \in Edge[enc])
              => /\ last.err # "none"
                 /\ WellFormedButQualities(last.args[1], sequence, qualities)
                    => last.err \in EncodingErrors
    /\ (last.op = "read" /\ Len(lines) - last.args[2] >= 4)
       => LET enc == last.args[1]
              from == last.args[2]
              header_line == lines[from + 1]
              separator == lines[from + 3]
              qualities == lines[from + 4]
          IN  (\E i \in 1..Len(qualities) : qualities[i] \in Edge[enc])
              => /\ last.ret = FALSE
                 /\ last.err # "none"
                 /\ (/\ Len(header_line) >= 2
                     /\ header_line[1] = Ord["@"]
                     /\ separator # <<>>
                     /\ separator[1] = Ord["+"]
                     /\ WellFormedButQualities(Tail(header_line), lines[from + 2],
                                               qualities))
                    => last.err \in EncodingErrors

\* C11 as stated: for each of Phred+33, Phred+64, Phred+33 (SAM) and Solexa,
\* decoding the byte offset - 1 or the byte offset + max_score + 1 fails with
\* the encoding error, and so does constructing or parsing a record whose
\* quality string holds such a byte.
C11_DecodeRejectsClaimedEdges == FailsOn(ClaimedEdges)

\* C11 as amended: the byte offset + max_score + 1 is rejected by all four
\* encodings and the byte offset - 1 by the three Phred encodings; Solexa
\* stands for the scores from MIN_SOLEXA_SCORE on, so it decodes offset - 1
\* and rejects offset + MIN_SOLEXA_SCORE - 1; a record whose quality string
\* holds a rejected byte is neither constructed nor parsed.
C11_DecodeRejectsOutOfRange ==
    /\ FailsOn(RejectedEdges)
    /\ (last.op = "decode" /\ last.args[1].solexa
        /\ last.args[2] = last.args[1].m_offset - 1)
       => /\ last.err = "none"
          /\ last.ret \in MIN_PHRED_SCORE..MAX_PHRED_SCORE

\* read() under Solexa has refused a well-formed record of two bases whose
\* second quality byte is ':', after decoding the first.
C11_Witness ==
    /\ last.op = "read"
    /\ last.args[1] = FASTQ_ENCODING_SOLEXA
    /\ last.args[2] = 0
    /\ lines[2] = Str(<<"A", "A">>)
    /\ lines[4] = <<PHRED_OFFSET_64, Ord[";"] - 1>>
    /\ last.err = "invalid_quality"
    /\ rec.m_qualities[1] # lines[4][1]
    /\ rec.m_qualities[2] = lines[4][2]

\* The 0-based indices of the bases of r the claim calls acceptable: their
\* canonical quality is strictly greater than the threshold and, when
\* trim_ns is set, they are not N.
AcceptableBases(r, trim_ns, threshold) ==
    {i \in 0..(Len(r.m_sequence) - 1) :
        /\ r.m_qualities[i + 1] - PHRED_OFFSET_33 > threshold
        /\ trim_ns => r.m_sequence[i + 1] # Ord["N"]}

\* C12: on a record of length L with an acceptable base, the first at index
\* lo and the last at index hi, trim_low_quality_bases keeps exactly the bases
\* and qualities at lo .. hi, returns (lo, L - 1 - hi), and the two counts and
\* the new length add up to L; with exactly one acceptable base lo = hi and
\* that one base is kept.
C12_TrimRetainsSpan ==
    (/\ last.op = "trim_low_quality_bases"
     /\ Len(last.pre.m_sequence) = Len(last.pre.m_qualities)
     /\ AcceptableBases(last.pre, last.args[1], last.args[2]) # {})
    => LET old == last.pre
           L == Len(old.m_sequence)
           acceptable == AcceptableBases(old, last.args[1], last.args[2])
           lo == CHOOSE i \in acceptable : \A j \in acceptable : i <= j
           hi == CHOOSE i \in acceptable : \A j \in acceptable : i >= j
       IN  /\ last.err = "none"
           /\ rec.m_header = old.m_header
           /\ rec.m_sequence = SubSeq(old.m_sequence, lo + 1, hi + 1)
           /\ rec.m_qualities = SubSeq(old.m_qualities, lo + 1, hi + 1)
           /\ last.ret = <<SizeT(lo), SizeT(L - 1 - hi)>>
           /\ SizeAdd(SizeAdd(last.ret[1], last.ret[2]), SizeT(Len(rec.m_sequence)))
              = SizeT(L)
           /\ Cardinality(acceptable) = 1
              => /\ lo = hi
                 /\ rec.m_sequence = <<old.m_sequence[lo + 1]>>
                 /\ rec.m_qualities = <<old.m_qualities[lo + 1]>>

\* "ACG" with qualities "#I#" was trimmed to "C" with "I": one base removed
\* from each end around the only acceptable one.
C12_Witness ==
    /\ last.op = "trim_low_quality_bases"
    /\ last.pre.m_sequence = Str(<<"A", "C", "G">>)
    /\ last.pre.m_qualities = Str(<<"#", "I", "#">>)
    /\ rec.m_sequence = Str(<<"C">>)
    /\ rec.m_qualities = Str(<<"I">>)
    /\ last.ret = <<SizeT(1), SizeT(1)>>

\* The characters of s at the 0-based indices [from, to).
Window(s, from, to) == [i \in 1..(to - from) |-> s[from + i]]

\* C13: on a record of length L, truncate(pos, len) with pos <= L leaves the
\* sequence and the qualities equal to their characters at the indices
\* [pos, min(pos + len, L)) and the header as it was, and changes nothing when
\* pos = 0 and len >= L; with pos > L it fails and the record is unchanged.
C13_TruncateWindow ==
    (last.op = "truncate" /\ Len(last.pre.m_sequence) = Len(last.pre.m_qualities))
    => LET old == last.pre
           L == Len(old.m_sequence)
           pos == last.args[1]
           len == last.args[2]
       IN  /\ pos <= L
              => /\ last.err = "none"
                 /\ rec.m_sequence = Window(old.m_sequence, pos, Min(pos + len, L))
                 /\ rec.m_qualities = Window(old.m_qualities, pos, Min(pos + len, L))
                 /\ rec.m_header = old.m_header
           /\ (pos = 0 /\ len >= L) => Equal(rec, old)
           /\ pos > L => (last.err # "none" /\ Equal(rec, old))

\* truncate(1, 3) has turned "ACGTN" with qualities "IIII#" into "CGT" with
\* "III".
C13_Witness ==
    /\ last.op = "truncate"
    /\ last.args = <<1, 3>>
    /\ last.pre.m_sequence = Str(<<"A", "C", "G", "T", "N">>)
    /\ last.pre.m_qualities = Str(<<"I", "I", "I", "I", "#">>)
    /\ rec.m_sequence = Str(<<"C", "G", "T">>)
    /\ rec.m_qualities = Str(<<"I", "I", "I">>)

\* C14: when read() on an existing record throws, the record's header,
\* sequence and qualities are as they were before the call, and a record
\* whose sequence and qualities had the same length still has them so.
C14_FailedParseLeavesRecord ==
    (last.op = "read" /\ last.err # "none")
    => /\ Equal(rec, last.pre)
       /\ Len(last.pre.m_sequence) = Len(last.pre.m_qualities)
          => Len(rec.m_sequence) = Len(rec.m_qualities)
=============================================================================
